---- MODULE Spec2Model ----
(***************************************************************************)
(* Model of the crowdsourced accident registry (AccidentReporter) of the   *)
(* route-risk service, and of the route scoring of app.py that reads it.   *)
(*                                                                         *)
(* Time.  The wall clock (datetime.now()) is the variable `now`, counted   *)
(* in ticks of one hour.  Every datetime.now() the code performs is a read *)
(* of the clock; where a handler reads the clock more than once, the ticks *)
(* that elapse between two reads are an input of the action.  A call is    *)
(* short against a tick, so the clock crosses at most one tick boundary    *)
(* during a call, and two reads may return the same value.                 *)
(*                                                                         *)
(* Space.  Reports and waypoints lie on one meridian; a position is the    *)
(* arc length in metres north of a reference point, so that the haversine  *)
(* distance of two positions is the absolute difference of the two.        *)
(* Positions are values round(x, 6) leaves as they are.  Floating-point    *)
(* error is not modelled: no input puts a distance on a threshold.         *)
(*                                                                         *)
(* Store.  The JSON file is the variable `store`: the list of report       *)
(* records in insertion order.  The description and the longitude of a     *)
(* report are payload no handler reads and are left out.  Handlers run one *)
(* at a time; each action is one whole handler, from its _load_accidents   *)
(* to its return.                                                          *)
(***************************************************************************)
EXTENDS Integers, Sequences, FiniteSets, TLC

VARIABLES
    now,      \* the wall clock, in ticks
    store,    \* contents of the storage file: sequence of report records
    created,  \* history: number of reports created so far (source of uid)
    voted_out,\* history: id and uid of the reports the fifth downvote removed
    last,     \* the last call: its name, its first clock reading, its return
              \* value, the list of reports it returned or counted, the
              \* number of reports its eviction dropped from the file, for a
              \* vote or a delete whether the file held the id it named, and
              \* for a scoring or an estimate the request it was given
    city_models_cache,  \* app.py: the loaded city model, <<>> while none is
    writers,            \* per request in flight: the list it loaded and will save
    removed             \* ghost: uids of the reports a delete, a fifth downvote or
                        \* an eviction took out of the file

vars == <<now, store, created, voted_out, last, city_models_cache, writers, removed>>

----------------------------------------------------------------------------
(* Bounds of the model *)

MaxTime == 3        \* the clock stops at this tick
MaxCreated == 2     \* at most this many reports are ever created
MaxUp == 4          \* upvotes are cast on a report only below this count
MaxPlanReports == 1 \* at most this many reports are made while routes are planned
MaxRaceUp == 2      \* a request in flight upvotes a report only below this count

(* Program constants *)

expiry_hours == 2           \* self.expiry_hours
VerifyUpvotes == 3          \* acc['upvotes'] >= 3
RemoveDownvotes == 5        \* acc['downvotes'] >= 5
DefaultRadius == 2000       \* radius_km = 2.0, in metres
DefaultBuffer == 500        \* buffer_km = 0.5, in metres

TTL == expiry_hours         \* timedelta(hours=self.expiry_hours), in ticks

None == "None"              \* Python's None
Absent == -1                \* a key the dict does not have

(* Inputs *)

ReporterIds == {None, "u1", "u2"}           \* user_id of a delete request
Sites ==                                     \* what a report request carries
    { [latitude |-> 0, severity |-> "Fatal", user_id |-> "u1"],
      [latitude |-> 3000, severity |-> "minor", user_id |-> None] }
VoteSites == { [latitude |-> 0, severity |-> "Fatal", user_id |-> "u1"] }
Elapsed == { <<0, 0>>, <<0, 1>> }           \* ticks between the clock reads of a report
VoteTypes == {"up", "down", "other"}
Centres == {0, 3000}
NearCentres == {0, 1400, 1496}              \* centres of the spatial-query workload
ImpactSites ==                               \* reports of the multiplier workload
    { [latitude |-> 0, severity |-> "Fatal", user_id |-> None],
      [latitude |-> 0, severity |-> "severe", user_id |-> None],
      [latitude |-> 0, severity |-> "hazard", user_id |-> None],
      [latitude |-> 3000, severity |-> "moderate", user_id |-> None],
      [latitude |-> 3000, severity |-> "minor", user_id |-> None] }
Routes == { <<>>, <<0, 1000>>, <<1000, 2600, 4000>> }

Times == 0..MaxTime
Ids == Times                \* an id is the clock reading it was formatted from

----------------------------------------------------------------------------
(* Helpers on sequences *)

RECURSIVE SumSeq(_)
SumSeq(s) == IF s = <<>> THEN 0 ELSE s[1] + SumSeq(Tail(s))

Abs(x) == IF x < 0 THEN -x ELSE x

RECURSIVE GCD(_, _)
GCD(a, b) == IF b = 0 THEN a ELSE GCD(b, a % b)

HasId(accidents, accident_id) ==
    \E i \in 1..Len(accidents) : accidents[i].id = accident_id

\* position of the first element the `for acc in accidents` loop matches
FirstWithId(accidents, accident_id) ==
    CHOOSE i \in 1..Len(accidents) :
        /\ accidents[i].id = accident_id
        /\ \A j \in 1..(i - 1) : accidents[j].id # accident_id

\* [a for a in accidents if a['id'] != accident_id]
WithoutId(accidents, accident_id) ==
    SelectSeq(accidents, LAMBDA a : a.id # accident_id)

----------------------------------------------------------------------------
(* AccidentReporter: pure parts *)

\* _generate_id: strftime of the clock reading t; injective in the reading
GenerateId(t) == t

\* str.lower() on the severities a request carries
Lower(severity) ==
    CASE severity = "Fatal" -> "fatal"
      [] severity = "Minor" -> "minor"
      [] OTHER -> severity

\* _clean_expired comparing with >= : a report aged exactly the TTL is kept
CleanExpired_KeepsBoundary(accidents, t) ==
    LET cutoff == t - TTL
    IN SelectSeq(accidents, LAMBDA acc : acc.timestamp >= cutoff)

\* _clean_expired with datetime.now() = t
CleanExpired(accidents, t) ==
    LET cutoff == t - TTL
    IN SelectSeq(accidents, LAMBDA acc : acc.timestamp > cutoff)

\* the dict built by report_accident; t1, t2, t3 are its three clock reads,
\* n is the history tag of the report (no handler reads it)
NewAccident(t1, t2, t3, latitude, severity, user_id, n) ==
    [ id |-> GenerateId(t1),
      timestamp |-> t2,
      latitude |-> latitude,
      severity |-> Lower(severity),
      user_id |-> user_id,
      upvotes |-> 0,
      downvotes |-> 0,
      verified |-> FALSE,
      expires_at |-> t3 + TTL,
      distance_km |-> Absent,
      distance_from_route_km |-> Absent,
      uid |-> n ]

\* _haversine_distance of two positions on the meridian, in metres
HaversineDistance(lat1, lat2) == Abs(lat2 - lat1)

\* round(km, 2) of a distance given in metres, in hundredths of a km
Round2(metres) ==
    LET q == metres \div 10
        r == metres % 10
    IN IF r > 5 \/ (r = 5 /\ q % 2 = 1) THEN q + 1 ELSE q

\* _point_to_segment_distance on the meridian (sy = dy = 0)
PointToSegmentDistance(px, x1, x2) ==
    LET dx == px - x1
        sx == x2 - x1
    IN IF sx = 0 THEN HaversineDistance(px, x1)
       ELSE LET num == dx * sx
                den == sx * sx
                \* closest_x = x1 + t * sx with t = max(0, min(1, num / den))
                closest_x == IF num <= 0 THEN x1
                             ELSE IF num >= den THEN x2
                             ELSE x1 + dx
            IN HaversineDistance(px, closest_x)

RECURSIVE SortByDistance(_)
\* list.sort(key = distance_km): stable insertion of the last element
SortByDistance(s) ==
    IF Len(s) <= 1 THEN s
    ELSE LET n == Len(s)
             front == SortByDistance(SubSeq(s, 1, n - 1))
             x == s[n]
             k == Cardinality({i \in 1..(n - 1) : front[i].distance_km <= x.distance_km})
         IN SubSeq(front, 1, k) \o <<x>> \o SubSeq(front, k + 1, n - 1)

\* the loop of get_accidents_near_location over the active list
Nearby(all_accidents, latitude, radius) ==
    LET distance(acc) == HaversineDistance(latitude, acc.latitude)
        within == SelectSeq(all_accidents, LAMBDA acc : distance(acc) <= radius)
        nearby == [i \in 1..Len(within) |->
                      [within[i] EXCEPT !.distance_km = Round2(distance(within[i]))]]
    IN SortByDistance(nearby)

\* the inner loop of get_accidents_on_route keeping the nearest leg instead of
\* stopping at the first one within the buffer
FirstLegWithin_Nearest(acc, waypoints, buffer) ==
    LET legs == 1..(Len(waypoints) - 1)
        d(i) == PointToSegmentDistance(acc.latitude, waypoints[i], waypoints[i + 1])
        hits == {i \in legs : d(i) <= buffer}
    IN IF hits = {} THEN 0
       ELSE CHOOSE i \in hits : \A j \in hits : d(i) < d(j) \/ (d(i) = d(j) /\ i <= j)

\* the inner loop of get_accidents_on_route: the first leg within the buffer, 0 if none
FirstLegWithin(acc, waypoints, buffer) ==
    LET legs == 1..(Len(waypoints) - 1)
        d(i) == PointToSegmentDistance(acc.latitude, waypoints[i], waypoints[i + 1])
        hits == {i \in legs : d(i) <= buffer}
    IN IF hits = {} THEN 0 ELSE CHOOSE i \in hits : \A j \in hits : i <= j

\* the loop of get_accidents_on_route over the active list
OnRoute(all_accidents, waypoints, buffer) ==
    LET leg(acc) == FirstLegWithin(acc, waypoints, buffer)
        matched == SelectSeq(all_accidents, LAMBDA acc : leg(acc) # 0)
        distance(acc) == PointToSegmentDistance(acc.latitude, waypoints[leg(acc)],
                                                waypoints[leg(acc) + 1])
    IN [i \in 1..Len(matched) |->
           [matched[i] EXCEPT !.distance_from_route_km = Round2(distance(matched[i]))]]

\* severity_weights.get(severity, 1.10), in hundredths
SeverityWeight(severity) ==
    CASE severity = "minor" -> 105
      [] severity = "moderate" -> 115
      [] severity = "severe" -> 130
      [] severity = "fatal" -> 150
      [] OTHER -> 110

\* time_factor with the thresholds exclusive (age < 30, age < 60)
TimeFactor_Exclusive(age_minutes) ==
    IF age_minutes < 30 THEN 10
    ELSE IF age_minutes < 60 THEN 8
    ELSE 5

\* time_factor for an age in minutes, in tenths
TimeFactor(age_minutes) ==
    IF age_minutes <= 30 THEN 10
    ELSE IF age_minutes <= 60 THEN 8
    ELSE 5

\* verification_factor, in tenths
VerificationFactor(acc) == IF acc.verified THEN 12 ELSE 10

\* impact of one accident at clock reading t, in ten-thousandths
Impact(acc, t) ==
    (SeverityWeight(acc.severity) - 100) * TimeFactor((t - acc.timestamp) * 60)
        * VerificationFactor(acc)

\* get_accident_impact_multiplier averaging the impacts instead of adding them
ImpactMultiplier_Mean(accidents, t) ==
    IF accidents = <<>> THEN 10000
    ELSE LET total_impact ==
                 10000 + (SumSeq([i \in 1..Len(accidents) |-> Impact(accidents[i], t)])
                             \div Len(accidents))
         IN IF total_impact < 20000 THEN total_impact ELSE 20000

\* get_accident_impact_multiplier returning total_impact without the cap
ImpactMultiplier_NoCap(accidents, t) ==
    IF accidents = <<>> THEN 10000
    ELSE 10000 + SumSeq([i \in 1..Len(accidents) |-> Impact(accidents[i], t)])

\* the value get_accident_impact_multiplier returns for the accidents on the
\* route, in ten-thousandths
ImpactMultiplier(accidents, t) ==
    IF accidents = <<>> THEN 10000
    ELSE LET total_impact ==
                 10000 + SumSeq([i \in 1..Len(accidents) |-> Impact(accidents[i], t)])
         IN IF total_impact < 20000 THEN total_impact ELSE 20000

\* round(x, 1) of the quotient num / den, in tenths (ties to even)
Round1(num, den) ==
    LET q == (10 * num) \div den
        r2 == 2 * ((10 * num) % den)
    IN IF r2 > den \/ (r2 = den /\ q % 2 = 1) THEN q + 1 ELSE q

\* the dict get_statistics returns
Statistics(accidents) ==
    [ total_active |-> Len(accidents),
      verified |-> Cardinality({i \in 1..Len(accidents) : accidents[i].verified}),
      by_severity |->
          [sev \in {"minor", "moderate", "severe", "fatal"} |->
              Cardinality({i \in 1..Len(accidents) : accidents[i].severity = sev})],
      avg_upvotes |->
          IF accidents = <<>> THEN 0
          ELSE Round1(SumSeq([i \in 1..Len(accidents) |-> accidents[i].upvotes]),
                      Len(accidents)),
      most_recent |-> IF accidents = <<>> THEN None ELSE accidents[Len(accidents)] ]

\* vote_accident verifying only above the threshold (upvotes > 3)
VotedList_VerifyAbove(accidents, i, vote_type) ==
    LET acc == accidents[i]
        up == IF vote_type = "up" THEN acc.upvotes + 1 ELSE acc.upvotes
        down == IF vote_type = "down" THEN acc.downvotes + 1 ELSE acc.downvotes
        ver == IF up > VerifyUpvotes /\ ~acc.verified THEN TRUE ELSE acc.verified
        acc2 == [acc EXCEPT !.upvotes = up, !.downvotes = down, !.verified = ver]
        accidents2 == [accidents EXCEPT ![i] = acc2]
    IN IF down >= RemoveDownvotes
       THEN WithoutId(accidents2, acc.id)
       ELSE accidents2

\* vote_accident recomputing the flag from the net score on every vote
VotedList_NetScore(accidents, i, vote_type) ==
    LET acc == accidents[i]
        up == IF vote_type = "up" THEN acc.upvotes + 1 ELSE acc.upvotes
        down == IF vote_type = "down" THEN acc.downvotes + 1 ELSE acc.downvotes
        ver == up - down >= VerifyUpvotes
        acc2 == [acc EXCEPT !.upvotes = up, !.downvotes = down, !.verified = ver]
        accidents2 == [accidents EXCEPT ![i] = acc2]
    IN IF down >= RemoveDownvotes
       THEN WithoutId(accidents2, acc.id)
       ELSE accidents2

\* the state of the list after the loop body of vote_accident ran on position i
VotedList(accidents, i, vote_type) ==
    LET acc == accidents[i]
        up == IF vote_type = "up" THEN acc.upvotes + 1 ELSE acc.upvotes
        down == IF vote_type = "down" THEN acc.downvotes + 1 ELSE acc.downvotes
        ver == IF up >= VerifyUpvotes /\ ~acc.verified THEN TRUE ELSE acc.verified
        acc2 == [acc EXCEPT !.upvotes = up, !.downvotes = down, !.verified = ver]
        accidents2 == [accidents EXCEPT ![i] = acc2]
    IN IF down >= RemoveDownvotes
       THEN WithoutId(accidents2, acc.id)
       ELSE accidents2

\* the test of delete_accident's loop: some report with the id passes the owner check
MayDelete(accidents, accident_id, user_id) ==
    \E i \in 1..Len(accidents) :
        /\ accidents[i].id = accident_id
        /\ (user_id = None \/ accidents[i].user_id = user_id)

----------------------------------------------------------------------------
(* AccidentReporter: the handlers *)

Call(op, at, ret, out, evicted) ==
    [op |-> op, at |-> at, ret |-> ret, out |-> out, evicted |-> evicted,
     known |-> FALSE, arg |-> None]

\* a call that names a report by id; known: the file held a report with that id
CallById(op, at, ret, known) ==
    [Call(op, at, ret, <<>>, 0) EXCEPT !.known = known]

Dropped(accidents) == Len(store) - Len(accidents)

\* the requests served at the same time, and one that holds no list
Procs == {1, 2}
Idle == [pc |-> "idle", op |-> "none", accident_id |-> Absent, accidents |-> <<>>,
         seen |-> Absent, uid |-> Absent, dropped |-> {}, done |-> FALSE]

Init ==
    /\ now = 0
    /\ store = <<>>
    /\ created = 0
    /\ voted_out = {}
    /\ last = Call("init", 0, None, <<>>, 0)
    /\ city_models_cache = <<>>
    /\ writers = [p \in Procs |-> Idle]
    /\ removed = {}

\* report_accident; d1 and d2 are the ticks elapsed between its clock reads
ReportAccident(latitude, severity, user_id, d1, d2) ==
    /\ created < MaxCreated
    /\ now + d1 + d2 <= MaxTime
    /\ \E accidents \in {CleanExpired(store, now)} :
       \E accident \in {NewAccident(now, now + d1, now + d1 + d2,
                                    latitude, severity, user_id, created + 1)} :
          /\ store' = Append(accidents, accident)
          /\ last' = Call("report", now, accident, <<>>, Dropped(accidents))
    /\ now' = now + d1 + d2
    /\ created' = created + 1
    /\ UNCHANGED <<voted_out, city_models_cache, writers, removed>>

\* get_active_accidents
GetActiveAccidents ==
    /\ \E accidents \in {CleanExpired(store, now)} :
          /\ store' = accidents
          /\ last' = Call("listActive", now, None, accidents, Dropped(accidents))
    /\ UNCHANGED <<now, created, voted_out, city_models_cache, writers, removed>>

\* get_accidents_near_location annotating the dicts before the file is saved
GetAccidentsNearLocation_SavesAnnotated(latitude, radius) ==
    /\ \E all_accidents \in {CleanExpired(store, now)} :
          /\ store' = [i \in 1..Len(all_accidents) |->
                          [all_accidents[i] EXCEPT !.distance_km =
                              IF HaversineDistance(latitude, all_accidents[i].latitude) <= radius
                              THEN Round2(HaversineDistance(latitude, all_accidents[i].latitude))
                              ELSE @]]
          /\ last' = Call("findNear", now, None,
                          Nearby(all_accidents, latitude, radius), Dropped(all_accidents))
    /\ UNCHANGED <<now, created, voted_out, city_models_cache, writers, removed>>

\* get_accidents_near_location
GetAccidentsNearLocation(latitude, radius) ==
    /\ \E all_accidents \in {CleanExpired(store, now)} :
          /\ store' = all_accidents
          /\ last' = Call("findNear", now, None,
                          Nearby(all_accidents, latitude, radius), Dropped(all_accidents))
    /\ UNCHANGED <<now, created, voted_out, city_models_cache, writers, removed>>

\* get_accidents_on_route
GetAccidentsOnRoute(waypoints, buffer) ==
    /\ \E all_accidents \in {CleanExpired(store, now)} :
          /\ store' = all_accidents
          /\ last' = Call("findOnRoute", now, None,
                          OnRoute(all_accidents, waypoints, buffer), Dropped(all_accidents))
    /\ UNCHANGED <<now, created, voted_out, city_models_cache, writers, removed>>

\* get_accident_impact_multiplier; d is the ticks elapsed before its own clock read
GetAccidentImpactMultiplier(waypoints, d) ==
    /\ now + d <= MaxTime
    /\ \E all_accidents \in {CleanExpired(store, now)} :
       \E accidents \in {OnRoute(all_accidents, waypoints, DefaultBuffer)} :
          /\ store' = all_accidents
          /\ last' = Call("impactMultiplier", now,
                          ImpactMultiplier(accidents, now + d), accidents,
                          Dropped(all_accidents))
    /\ now' = now + d
    /\ UNCHANGED <<created, voted_out, city_models_cache, writers, removed>>

\* get_statistics
GetStatistics ==
    /\ \E accidents \in {CleanExpired(store, now)} :
          /\ store' = accidents
          /\ last' = Call("statistics", now, Statistics(accidents), accidents,
                          Dropped(accidents))
    /\ UNCHANGED <<now, created, voted_out, city_models_cache, writers, removed>>

\* history: the vote on position i is the one that brings its downvotes to 5
VotedOut(accidents, i, vote_type) ==
    vote_type = "down" /\ accidents[i].downvotes + 1 >= RemoveDownvotes

\* vote_accident answering True when the loop found no report
VoteAccident_NotFoundTrue(accident_id, vote_type) ==
    /\ IF HasId(store, accident_id)
       THEN LET i == FirstWithId(store, accident_id)
            IN /\ vote_type = "up" => store[i].upvotes < MaxUp
               /\ store' = VotedList(store, i, vote_type)
               /\ voted_out' = IF VotedOut(store, i, vote_type)
                                THEN voted_out \cup {[id |-> accident_id, uid |-> store[i].uid]}
                                ELSE voted_out
               /\ last' = CallById("vote", now, TRUE, TRUE)
       ELSE /\ store' = store
            /\ voted_out' = voted_out
            /\ last' = CallById("vote", now, TRUE, FALSE)
    /\ UNCHANGED <<now, created, city_models_cache, writers, removed>>

\* vote_accident
VoteAccident(accident_id, vote_type) ==
    /\ IF HasId(store, accident_id)
       THEN LET i == FirstWithId(store, accident_id)
            IN /\ vote_type = "up" => store[i].upvotes < MaxUp
               /\ store' = VotedList(store, i, vote_type)
               /\ voted_out' = IF VotedOut(store, i, vote_type)
                                THEN voted_out \cup {[id |-> accident_id, uid |-> store[i].uid]}
                                ELSE voted_out
               /\ last' = CallById("vote", now, TRUE, TRUE)
       ELSE /\ store' = store
            /\ voted_out' = voted_out
            /\ last' = CallById("vote", now, FALSE, FALSE)
    /\ UNCHANGED <<now, created, city_models_cache, writers, removed>>

\* delete_accident
DeleteAccident(accident_id, user_id) ==
    /\ IF MayDelete(store, accident_id, user_id)
       THEN /\ store' = WithoutId(store, accident_id)
            /\ last' = CallById("delete", now, TRUE, TRUE)
       ELSE /\ store' = store
            /\ last' = CallById("delete", now, FALSE, HasId(store, accident_id))
    /\ UNCHANGED <<now, created, voted_out, city_models_cache, writers, removed>>

\* The handlers as two steps, _load_accidents with the work on the loaded
\* list and _save_accidents, for requests served at the same time.  A read or
\* a write of the file is taken as one step.

StoredUids(accidents) == {accidents[i].uid : i \in 1..Len(accidents)}

\* a request between its load and its save; dropped: the reports of the
\* loaded list that its delete, its fifth downvote or its eviction took out
Loaded(op, accident_id, accidents, seen, uid) ==
    [pc |-> "loaded", op |-> op, accident_id |-> accident_id, accidents |-> accidents,
     seen |-> seen, uid |-> uid,
     dropped |-> StoredUids(store) \ StoredUids(accidents), done |-> FALSE]

\* vote_accident up to the save: False at once when no report has the id
VoteLoad(p, accident_id, vote_type) ==
    /\ writers[p].pc = "idle"
    /\ IF HasId(store, accident_id)
       THEN LET i == FirstWithId(store, accident_id)
            IN /\ vote_type = "up" => store[i].upvotes < MaxRaceUp
               /\ writers' = [writers EXCEPT ![p] =
                                 Loaded(vote_type, accident_id,
                                        VotedList(store, i, vote_type),
                                        store[i].upvotes, store[i].uid)]
               /\ last' = Call("load", now, None, <<>>, 0)
       ELSE /\ writers' = [writers EXCEPT ![p] = Idle]
            /\ last' = CallById("vote", now, FALSE, FALSE)
    /\ UNCHANGED <<now, store, created, voted_out, city_models_cache, removed>>

\* delete_accident up to the save
DeleteLoad(p, accident_id, user_id) ==
    /\ writers[p].pc = "idle"
    /\ IF MayDelete(store, accident_id, user_id)
       THEN /\ writers' = [writers EXCEPT ![p] =
                              Loaded("delete", accident_id, WithoutId(store, accident_id),
                                     Absent, Absent)]
            /\ last' = Call("load", now, None, <<>>, 0)
       ELSE /\ writers' = [writers EXCEPT ![p] = Idle]
            /\ last' = CallById("delete", now, FALSE, HasId(store, accident_id))
    /\ UNCHANGED <<now, store, created, voted_out, city_models_cache, removed>>

\* report_accident up to the save; the workload reports into an empty file
ReportLoad(p, latitude, severity, user_id) ==
    /\ writers[p].pc = "idle"
    /\ created < MaxCreated
    /\ store = <<>>
    /\ LET accident == NewAccident(now, now, now, latitude, severity, user_id, created + 1)
       IN /\ writers' = [writers EXCEPT ![p] =
                            Loaded("report", accident.id,
                                   Append(CleanExpired(store, now), accident),
                                   Absent, accident.uid)]
          /\ last' = Call("load", now, None, <<>>, 0)
    /\ created' = created + 1
    /\ UNCHANGED <<now, store, voted_out, city_models_cache, removed>>

\* get_active_accidents up to the save
ActiveLoad(p) ==
    /\ writers[p].pc = "idle"
    /\ writers' = [writers EXCEPT ![p] =
                      Loaded("listActive", Absent, CleanExpired(store, now), Absent, Absent)]
    /\ last' = Call("load", now, None, <<>>, 0)
    /\ UNCHANGED <<now, store, created, voted_out, city_models_cache, removed>>

\* a request that has saved and returned: its locals are gone; of an upvote
\* the report and the count it had loaded are remembered
Returned(w) ==
    IF w.op = "up"
    THEN [Idle EXCEPT !.op = "up", !.seen = w.seen, !.uid = w.uid, !.done = TRUE]
    ELSE [Idle EXCEPT !.done = TRUE]

\* a save that applies the caller's change to the file as it is now
SavedList_Merged(p) ==
    IF writers[p].op \in {"up", "down"} /\ HasId(store, writers[p].accident_id)
    THEN VotedList(store, FirstWithId(store, writers[p].accident_id), writers[p].op)
    ELSE writers[p].accidents

\* what _save_accidents writes: the caller's list, whole
SavedList(p) == writers[p].accidents

\* _save_accidents and the return of the handler; last.out: the caller's list
Save(p) ==
    /\ writers[p].pc = "loaded"
    /\ store' = SavedList(p)
    /\ removed' = removed \cup ((StoredUids(store) \ StoredUids(SavedList(p)))
                                    \cap writers[p].dropped)
    /\ writers' = [writers EXCEPT ![p] = Returned(writers[p])]
    /\ last' = [Call("save", now, TRUE, writers[p].accidents, 0) EXCEPT !.arg = [proc |-> p]]
    /\ UNCHANGED <<now, created, voted_out, city_models_cache>>

\* the clock advances between two calls
Tick ==
    /\ now < MaxTime
    /\ now' = now + 1
    /\ last' = Call("tick", now + 1, None, <<>>, 0)
    /\ UNCHANGED <<store, created, voted_out, city_models_cache, writers, removed>>

----------------------------------------------------------------------------
(* app.py: scoring a route.  Multipliers are exact fractions: the accident *)
(* multiplier in ten-thousandths, the vehicle multiplier in tenths, the    *)
(* weather multiplier in twentieths, their product in units of 1/MultScale.*)
(* Scores are in hundredths.  Rounding is that of the exact quotient.      *)

\* what a scoring request carries, and what it finds
VehicleInputs == {"car", "Bike", "tractor"}
\* what a call of the weather service meets: whether an API key is set, the
\* answer of the weather API ("timeout" for any exception), whether the
\* description says rain or drizzle, whether it says heavy, whether the main
\* condition says fog, mist or haze, and whether the month is June..September
WeatherCall(api_key, response, rainy, heavy, foggy, monsoon) ==
    [api_key |-> api_key, response |-> response, rainy |-> rainy, heavy |-> heavy,
     foggy |-> foggy, monsoon |-> monsoon]
WeatherCalls ==
    { WeatherCall(FALSE, "none", FALSE, FALSE, FALSE, TRUE),
      WeatherCall(TRUE, "timeout", FALSE, FALSE, FALSE, FALSE),
      WeatherCall(TRUE, "401", FALSE, FALSE, FALSE, FALSE),
      WeatherCall(TRUE, "200", TRUE, TRUE, FALSE, FALSE),
      WeatherCall(TRUE, "200", FALSE, FALSE, TRUE, FALSE) }
ScoreRoutes == { <<>>, <<0, 2, 2>>, <<0, 2, 4>> }
RiskScores == {6000, 7200}                  \* risk_score of an estimate request

\* a loaded city: road_segments.csv and segment_risk_scores.pkl
NoSegments == [segments |-> <<>>, segment_risk_scores |-> <<>>]
TwoSegments ==
    [segments |-> << [segment_id |-> 1, start_lat |-> 0, end_lat |-> 2, road_name |-> "A"],
                     [segment_id |-> 2, start_lat |-> 2, end_lat |-> 4, road_name |-> "B"] >>,
     segment_risk_scores |-> << 90 >>]
CityModels == {NoSegments, TwoSegments}
\* a city whose one road has a stored risk score of 28
QuietRoad ==
    [segments |-> << [segment_id |-> 1, start_lat |-> 0, end_lat |-> 240, road_name |-> "Q"] >>,
     segment_risk_scores |-> << 28 >>]
PlanCities == {NoSegments, QuietRoad}

\* what a request for routes carries, and the midpoint shifts: 0.015 degree
\* of latitude for a scenic route, up to 0.01 degree drawn for a highway route
PlanEnds == {0, 240}
RouteTypes == {"direct", "highway", "scenic", "other"}
ScenicOffset == 1668
HighwayJitter == {-900, 0, 900}
\* a request of /api/safe-routes: both places are known to get_coords; the
\* traffic client answers with no route (or is not configured) or with two
PlanTrips == { <<0, 240>>, <<240, 240>> }
PlanVehicles == {"car", "bus"}
TrafficRoutes == {0, 2}
PlanJitter == {900}
\* the weather each of the (up to three) scorings of a request meets
PlanWeather ==
    LET clear == WeatherCall(TRUE, "timeout", FALSE, FALSE, FALSE, FALSE)
        rain == WeatherCall(FALSE, "none", FALSE, FALSE, FALSE, TRUE)
    IN { <<clear, rain, clear>>, <<rain, rain, rain>> }
SimulatedRoutes == <<"direct", "highway", "scenic">>

VehicleTypes == {"car", "bike", "auto", "bus", "truck"}     \* keys of VEHICLE_TYPES

\* VEHICLE_TYPES[v]['risk_multiplier'], in tenths
RiskMultiplier(v) ==
    CASE v = "car" -> 10
      [] v = "bike" -> 18
      [] v = "auto" -> 15
      [] v = "bus" -> 12
      [] v = "truck" -> 13

\* VEHICLE_TYPES[v]['speed_factor'], in hundredths
SpeedFactor(v) ==
    CASE v = "car" -> 100
      [] v = "bike" -> 85
      [] v = "auto" -> 75
      [] v = "bus" -> 80
      [] v = "truck" -> 70

\* str.lower() on the vehicle types a request carries
LowerVehicle(vehicle_type) ==
    CASE vehicle_type = "Bike" -> "bike"
      [] OTHER -> vehicle_type

\* get_vehicle_multiplier falling back to the first type that is not the car
get_vehicle_multiplier_FallbackBike(vehicle_type) ==
    LET lowered == LowerVehicle(vehicle_type)
        v == IF lowered \notin VehicleTypes THEN "bike" ELSE lowered
    IN [vehicle_type |-> v, combined_multiplier |-> RiskMultiplier(v),
        speed_factor |-> SpeedFactor(v)]

\* get_vehicle_multiplier (name and icon follow the type and are left out)
get_vehicle_multiplier(vehicle_type) ==
    LET lowered == LowerVehicle(vehicle_type)
        v == IF lowered \notin VehicleTypes THEN "car" ELSE lowered
    IN [vehicle_type |-> v, combined_multiplier |-> RiskMultiplier(v),
        speed_factor |-> SpeedFactor(v)]

\* _get_mock_weather (the fields no caller of the scoring reads are left out)
MockWeather(monsoon) ==
    [weather_category |-> IF monsoon THEN "Rain" ELSE "Clear", is_live |-> FALSE]

\* get_current_weather handing a response that is not 200 on to the mapping
get_current_weather_NoStatusCheck(call) ==
    IF ~call.api_key \/ call.response = "timeout" THEN MockWeather(call.monsoon)
    ELSE [weather_category |->
              IF call.response # "200" THEN None
              ELSE IF call.rainy THEN (IF call.heavy THEN "Heavy Rain" ELSE "Rain")
              ELSE IF call.foggy THEN "Fog"
              ELSE "Clear",
          is_live |-> TRUE]

\* get_current_weather
get_current_weather(call) ==
    IF ~call.api_key THEN MockWeather(call.monsoon)
    ELSE IF call.response = "timeout" THEN MockWeather(call.monsoon)
    ELSE IF call.response # "200" THEN MockWeather(call.monsoon)
    ELSE [weather_category |->
              IF call.rainy THEN (IF call.heavy THEN "Heavy Rain" ELSE "Rain")
              ELSE IF call.foggy THEN "Fog"
              ELSE "Clear",
          is_live |-> TRUE]

\* weather_weights.get(category, 1.0), in twentieths
WeatherWeight(category) ==
    CASE category = "Clear" -> 20
      [] category = "Rain" -> 25
      [] category = "Fog" -> 27
      [] category = "Heavy Rain" -> 32
      [] OTHER -> 20

WeatherTable == {"Clear", "Rain", "Fog", "Heavy Rain"}      \* keys of weather_weights

MultScale == 10000 * 10 * 20        \* denominator of combined_mult
DefaultBaseRisk == 40               \* risk of a leg or a segment without a score
RiskCap == 100                      \* min(100, ...)
Epsilon == 1                        \* 0.001 km, in metres

\* haversine_distance of app.py on the meridian, in metres
haversine_distance(lat1, lat2) == Abs(lat2 - lat1)

\* round(num / den, 2), in hundredths (ties to even)
RoundHundredths(num, den) ==
    LET whole == num \div den
        rem == num % den
        q == 100 * whole + ((100 * rem) \div den)
        r2 == 2 * ((100 * rem) % den)
    IN IF r2 > den \/ (r2 = den /\ q % 2 = 1) THEN q + 1 ELSE q

\* generate_route_waypoints on the meridian; jitter is the value drawn by
\* random.uniform for the midpoint of a highway route.  The inputs make
\* every quotient exact.
RouteWaypoints_NoMidpoint(start, end, route_type, jitter) ==
    LET Between(a, b, n) == [i \in 1..(n - 1) |-> a + ((b - a) * i) \div n]
        mid == IF route_type = "highway" THEN (start + end) \div 2 + jitter
               ELSE (start + end) \div 2 + ScenicOffset
    IN <<start>>
       \o (CASE route_type = "direct" -> Between(start, end, 5)
             [] route_type = "highway" ->
                   Between(start, mid, 3) \o Between(mid, end, 3)
             [] route_type = "scenic" ->
                   Between(start, mid, 4) \o Between(mid, end, 4)
             [] OTHER -> <<>>)
       \o <<end>>

RouteWaypoints(start, end, route_type, jitter) ==
    LET Between(a, b, n) == [i \in 1..(n - 1) |-> a + ((b - a) * i) \div n]
        mid == IF route_type = "highway" THEN (start + end) \div 2 + jitter
               ELSE (start + end) \div 2 + ScenicOffset
    IN <<start>>
       \o (CASE route_type = "direct" -> Between(start, end, 5)
             [] route_type = "highway" ->
                   Between(start, mid, 3) \o <<mid>> \o Between(mid, end, 3)
             [] route_type = "scenic" ->
                   Between(start, mid, 4) \o <<mid>> \o Between(mid, end, 4)
             [] OTHER -> <<>>)
       \o <<end>>

\* leg_dist of leg i: the distance of its ends, or 0.001 km when that is zero
LegDist(waypoints, i) ==
    LET d == haversine_distance(waypoints[i], waypoints[i + 1])
    IN IF d = 0 THEN Epsilon ELSE d

\* the loop over segments_df: the first segment whose midpoint is nearest to
\* the midpoint of leg i, 0 when the table is empty (distances are doubled)
Nearest(segments, waypoints, i) ==
    LET d(k) == haversine_distance(waypoints[i] + waypoints[i + 1],
                                   segments[k].start_lat + segments[k].end_lat)
    IN IF segments = <<>> THEN 0
       ELSE CHOOSE k \in 1..Len(segments) :
                \A j \in 1..Len(segments) : d(k) < d(j) \/ (d(k) = d(j) /\ k <= j)

\* segment_risk_scores.get(segment_id, {}).get('risk_score', 40)
BaseRisk(city, segment_id) ==
    IF segment_id \in DOMAIN city.segment_risk_scores
    THEN city.segment_risk_scores[segment_id]
    ELSE DefaultBaseRisk

\* leg risk that leaves the multipliers out when the leg has no segment
LegRisk_NoSegmentUnscaled(city, waypoints, i, combined_mult) ==
    LET nearest == Nearest(city.segments, waypoints, i)
    IN IF nearest # 0
       THEN LET base_risk == BaseRisk(city, city.segments[nearest].segment_id)
            IN IF base_risk * combined_mult < RiskCap * MultScale
               THEN base_risk * combined_mult
               ELSE RiskCap * MultScale
       ELSE DefaultBaseRisk * MultScale

\* what leg i adds to total_risk per unit of length, in units of 1/MultScale
LegRisk(city, waypoints, i, combined_mult) ==
    LET nearest == Nearest(city.segments, waypoints, i)
    IN IF nearest # 0
       THEN LET base_risk == BaseRisk(city, city.segments[nearest].segment_id)
            IN IF base_risk * combined_mult < RiskCap * MultScale
               THEN base_risk * combined_mult
               ELSE RiskCap * MultScale
       ELSE DefaultBaseRisk * combined_mult

\* risk_details: one entry per leg that has a nearest segment
RiskDetails(city, waypoints, combined_mult) ==
    [i \in 1..(IF city.segments = <<>> \/ Len(waypoints) = 0 THEN 0 ELSE Len(waypoints) - 1) |->
        [road |-> city.segments[Nearest(city.segments, waypoints, i)].road_name,
         risk |-> RoundHundredths(LegRisk(city, waypoints, i, combined_mult), MultScale)]]

\* the dict calculate_route_risk returns once the city is loaded
RouteRisk(city, accident_mult, waypoints, vehicle_type, weather_data) ==
    LET vehicle_info == get_vehicle_multiplier(vehicle_type)
        vehicle_mult == vehicle_info.combined_multiplier
        weather_mult == WeatherWeight(weather_data.weather_category)
        combined_mult == accident_mult * vehicle_mult * weather_mult
        legs == 1..(IF Len(waypoints) = 0 THEN 0 ELSE Len(waypoints) - 1)
        \* every leg risk is a multiple of unit: total_risk is kept in
        \* units of unit/MultScale, which is exact
        unit == GCD(combined_mult, MultScale)
        total_risk == SumSeq([i \in legs |->
                         (LegRisk(city, waypoints, i, combined_mult) \div unit)
                             * LegDist(waypoints, i)])
        total_dist == SumSeq([i \in legs |-> LegDist(waypoints, i)])
        divisor == IF total_dist > Epsilon THEN total_dist ELSE Epsilon
    IN [risk_score |-> RoundHundredths(total_risk, (MultScale \div unit) * divisor),
        accident_multiplier |-> accident_mult,
        vehicle_multiplier |-> vehicle_mult,
        weather_multiplier |-> weather_mult,
        weather_data |-> weather_data,
        vehicle_info |-> vehicle_info,
        combined_multiplier |-> RoundHundredths(combined_mult, MultScale),
        risk_details |-> RiskDetails(city, waypoints, combined_mult)]

\* the levels with the thresholds on the lower side
RiskLevel_Inclusive(risk_score) ==
    IF risk_score <= 3500 THEN "low"
    ELSE IF risk_score <= 6000 THEN "medium"
    ELSE "high"

\* 'risk_level' of a simulated route, from a risk score in hundredths
RiskLevel(risk_score) ==
    IF risk_score < 3500 THEN "low"
    ELSE IF risk_score < 6000 THEN "medium"
    ELSE "high"

\* 'risk_level' of a route built from a traffic result
TrafficRiskLevel(risk_score) ==
    IF risk_score < 3500 THEN "low"
    ELSE IF risk_score < 6000 THEN "medium"
    ELSE "high"

RECURSIVE SortByRiskScore(_)
\* routes.sort(key = risk_score): stable insertion of the last element
SortByRiskScore(s) ==
    IF Len(s) <= 1 THEN s
    ELSE LET n == Len(s)
             front == SortByRiskScore(SubSeq(s, 1, n - 1))
             x == s[n]
             k == Cardinality({i \in 1..(n - 1) : front[i].risk_score <= x.risk_score})
         IN SubSeq(front, 1, k) \o <<x>> \o SubSeq(front, k + 1, n - 1)

\* load_city_model: the cached city, or the exception the load ends in.  A
\* city without its data directories raises ValueError; with them the load
\* reaches AccidentReporter(db_path=...), a keyword __init__ does not have
load_city_model(cache, has_data) ==
    IF cache # <<>> THEN [raised |-> FALSE, result |-> cache[1]]
    ELSE IF ~has_data THEN [raised |-> TRUE, error |-> "ValueError"]
    ELSE [raised |-> TRUE, error |-> "TypeError"]

\* a scoring or an estimate: a call recorded with its request
CallFor(op, at, ret, out, evicted, request) ==
    [Call(op, at, ret, out, evicted) EXCEPT !.arg = request]

\* what calculate_route_risk returns in the present state: the error dict of
\* a failed load, or the score over the accidents the registry has on the route
RouteRiskNow(waypoints, vehicle_type, weather_data, has_data) ==
    LET loaded == load_city_model(city_models_cache, has_data)
        accidents == OnRoute(CleanExpired(store, now), waypoints, DefaultBuffer)
    IN IF loaded.raised THEN [error |-> loaded.error]
       ELSE RouteRisk(loaded.result, ImpactMultiplier(accidents, now),
                      waypoints, vehicle_type, weather_data)

\* calculate_route_risk; weather_call: what its call of the weather service
\* meets; has_data: the city has its data directories.  The registry is
\* read, and evicts, only once the city is loaded
calculate_route_risk(waypoints, vehicle_type, weather_call, has_data) ==
    LET loaded == load_city_model(city_models_cache, has_data)
        all_accidents == IF loaded.raised THEN store ELSE CleanExpired(store, now)
        accidents == IF loaded.raised THEN <<>>
                     ELSE OnRoute(all_accidents, waypoints, DefaultBuffer)
    IN /\ store' = all_accidents
       /\ last' = CallFor("scoreRoute", now,
                          RouteRiskNow(waypoints, vehicle_type,
                                       get_current_weather(weather_call), has_data),
                          accidents, Dropped(all_accidents),
                          [waypoints |-> waypoints, vehicle_type |-> vehicle_type,
                           weather_call |-> weather_call, has_data |-> has_data])
       /\ UNCHANGED <<now, created, voted_out, city_models_cache, writers, removed>>

\* the estimate with the time penalty from a risk score of 60 on
RouteMetadata_PenaltyAt60(waypoints, risk_score, vehicle_type) ==
    LET legs == 1..(IF Len(waypoints) = 0 THEN 0 ELSE Len(waypoints) - 1)
        total_distance == SumSeq([i \in legs |->
                              haversine_distance(waypoints[i], waypoints[i + 1])])
        base_time_minutes == (total_distance * 60) \div (30 * 1000)
        lowered == LowerVehicle(vehicle_type)
        speed_factor == SpeedFactor(IF lowered \in VehicleTypes THEN lowered ELSE "car")
        time_minutes == (base_time_minutes * 100) \div speed_factor
    IN [distance_km |-> Round2(total_distance),
        time_minutes |-> IF risk_score >= 6000 THEN (time_minutes * 115) \div 100
                         ELSE time_minutes]

\* the dict get_route_metadata returns: distance in hundredths of a km
RouteMetadata(waypoints, risk_score, vehicle_type) ==
    LET legs == 1..(IF Len(waypoints) = 0 THEN 0 ELSE Len(waypoints) - 1)
        total_distance == SumSeq([i \in legs |->
                              haversine_distance(waypoints[i], waypoints[i + 1])])
        base_time_minutes == (total_distance * 60) \div (30 * 1000)
        lowered == LowerVehicle(vehicle_type)
        speed_factor == SpeedFactor(IF lowered \in VehicleTypes THEN lowered ELSE "car")
        time_minutes == (base_time_minutes * 100) \div speed_factor
    IN [distance_km |-> Round2(total_distance),
        time_minutes |-> IF risk_score > 6000 THEN (time_minutes * 115) \div 100
                         ELSE time_minutes]

\* generate_route_waypoints
generate_route_waypoints(start, end, route_type, jitter) ==
    /\ last' = CallFor("waypoints", now, RouteWaypoints(start, end, route_type, jitter),
                       <<>>, 0,
                       [start |-> start, end |-> end, route_type |-> route_type])
    /\ UNCHANGED <<now, store, created, voted_out, city_models_cache, writers, removed>>

\* the routes get_safe_routes builds once the city is loaded, before the
\* sort.  Of a route's dict the entries kept are the ones a consumer ranks
\* and labels by; time_minutes, the random traffic_delay, risk_details and
\* weather_data are left out.  A traffic route is scored on the direct
\* waypoints between the two places.
SafeRoutes(city, all_accidents, start, end, vehicle_type, traffic_routes, weather_calls, jitter) ==
    LET Scored(wp, k) ==
            RouteRisk(city, ImpactMultiplier(OnRoute(all_accidents, wp, DefaultBuffer), now),
                      wp, vehicle_type, get_current_weather(weather_calls[k]))
        Traffic(k) ==
            LET wp == RouteWaypoints(start, end, "direct", 0)
                risk_result == Scored(wp, k)
            IN [id |-> k, name |-> "traffic", waypoints |-> wp,
                risk_score |-> risk_result.risk_score,
                risk_level |-> TrafficRiskLevel(risk_result.risk_score),
                distance_km |-> Absent, accidents_on_route |-> Absent,
                recommended |-> FALSE]
        Simulated(k) ==
            LET wp == RouteWaypoints(start, end, SimulatedRoutes[k], jitter)
                risk_result == Scored(wp, k)
                meta == RouteMetadata(wp, risk_result.risk_score, vehicle_type)
            IN [id |-> k, name |-> SimulatedRoutes[k], waypoints |-> wp,
                risk_score |-> risk_result.risk_score,
                risk_level |-> RiskLevel(risk_result.risk_score),
                distance_km |-> meta.distance_km,
                accidents_on_route |-> Len(OnRoute(all_accidents, wp, DefaultBuffer)),
                recommended |-> FALSE]
    IN IF traffic_routes > 0 THEN [k \in 1..traffic_routes |-> Traffic(k)]
       ELSE [k \in 1..Len(SimulatedRoutes) |-> Simulated(k)]

\* get_safe_routes: the error of a failed load, or the routes sorted by risk
\* score with the first one recommended.  The registry is read, and evicts,
\* only once the city is loaded
get_safe_routes(start, end, vehicle_type, traffic_routes, weather_calls, jitter, has_data) ==
    LET loaded == load_city_model(city_models_cache, has_data)
        all_accidents == IF loaded.raised THEN store ELSE CleanExpired(store, now)
        routes == SortByRiskScore(SafeRoutes(loaded.result, all_accidents, start, end,
                                             vehicle_type, traffic_routes,
                                             weather_calls, jitter))
        response == IF loaded.raised THEN [error |-> loaded.error]
                    ELSE [routes |-> [routes EXCEPT ![1].recommended = TRUE],
                          vehicle_type |-> vehicle_type,
                          active_accidents_count |-> Len(all_accidents)]
    IN /\ store' = all_accidents
       /\ last' = CallFor("safeRoutes", now, response, <<>>, Dropped(all_accidents),
                          [start |-> start, end |-> end, vehicle_type |-> vehicle_type,
                           traffic_routes |-> traffic_routes, has_data |-> has_data])
       /\ UNCHANGED <<now, created, voted_out, city_models_cache, writers, removed>>

\* get_route_metadata
get_route_metadata(waypoints, risk_score, vehicle_type) ==
    /\ last' = CallFor("metadata", now, RouteMetadata(waypoints, risk_score, vehicle_type),
                       <<>>, 0,
                       [waypoints |-> waypoints, risk_score |-> risk_score,
                        vehicle_type |-> vehicle_type])
    /\ UNCHANGED <<now, store, created, voted_out, city_models_cache, writers, removed>>

----------------------------------------------------------------------------
(* Specifications *)

\* the registry under reports, reads, deletes and downvotes as the clock runs
Next ==
    \/ \E si \in Sites, d \in Elapsed :
           ReportAccident(si.latitude, si.severity, si.user_id, d[1], d[2])
    \/ GetActiveAccidents
    \/ \E la \in Centres : GetAccidentsNearLocation(la, DefaultRadius)
    \/ \E wp \in Routes : GetAccidentsOnRoute(wp, DefaultBuffer)
    \/ \E wp \in Routes, d \in {0, 1} : GetAccidentImpactMultiplier(wp, d)
    \/ GetStatistics
    \/ \E i \in 0..now, vt \in {"down", "other"} : VoteAccident(i, vt)
    \/ \E i \in 0..now, u \in ReporterIds : DeleteAccident(i, u)
    \/ Tick

Spec == Init /\ [][Next]_vars

\* the registry under votes of every type on reports of one site
NextVote ==
    \/ \E si \in VoteSites : ReportAccident(si.latitude, si.severity, si.user_id, 0, 0)
    \/ GetActiveAccidents
    \/ \E i \in 0..now, vt \in VoteTypes : VoteAccident(i, vt)
    \/ \E i \in 0..now, u \in ReporterIds : DeleteAccident(i, u)
    \/ Tick

SpecVote == Init /\ [][NextVote]_vars

\* the registry under reports at two sites and the two spatial queries as the
\* clock runs
NextQuery ==
    \/ \E si \in Sites : ReportAccident(si.latitude, si.severity, si.user_id, 0, 0)
    \/ \E la \in NearCentres : GetAccidentsNearLocation(la, DefaultRadius)
    \/ \E wp \in Routes : GetAccidentsOnRoute(wp, DefaultBuffer)
    \/ Tick

SpecQuery == Init /\ [][NextQuery]_vars

\* the scoring service over a registry that takes reports as the clock
\* runs.  load_city_model never fills the cache (its last step but
\* one raises), so a service that scores starts with the city in the cache.
InitScore ==
    /\ now = 0
    /\ store = <<>>
    /\ created = 0
    /\ voted_out = {}
    /\ last = Call("init", 0, None, <<>>, 0)
    /\ city_models_cache \in {<<>>} \cup {<<city>> : city \in CityModels}
    /\ writers = [p \in Procs |-> Idle]
    /\ removed = {}

\* whether the data directories exist matters to a load only
DataDirs == IF city_models_cache = <<>> THEN BOOLEAN ELSE {TRUE}

NextScore ==
    \/ \E si \in VoteSites : ReportAccident(si.latitude, si.severity, si.user_id, 0, 0)
    \/ \E wp \in ScoreRoutes, v \in VehicleInputs, w \in WeatherCalls,
          has_data \in DataDirs : calculate_route_risk(wp, v, w, has_data)
    \/ \E wp \in Routes, r \in RiskScores, v \in VehicleInputs : get_route_metadata(wp, r, v)
    \/ Tick

SpecScore == InitScore /\ [][NextScore]_vars

\* the route planner: waypoint generation over a registry that takes reports
\* as the clock runs
InitPlan ==
    /\ now = 0
    /\ store = <<>>
    /\ created = 0
    /\ voted_out = {}
    /\ last = Call("init", 0, None, <<>>, 0)
    /\ city_models_cache \in {<<>>} \cup {<<city>> : city \in PlanCities}
    /\ writers = [p \in Procs |-> Idle]
    /\ removed = {}

NextPlan ==
    \/ \E si \in VoteSites :
          /\ created < MaxPlanReports
          /\ ReportAccident(si.latitude, si.severity, si.user_id, 0, 0)
    \/ \E a \in PlanEnds, b \in PlanEnds, rt \in RouteTypes, j \in HighwayJitter :
          generate_route_waypoints(a, b, rt, j)
    \/ \E trip \in PlanTrips, v \in PlanVehicles, n \in TrafficRoutes, w \in PlanWeather,
          j \in PlanJitter, has_data \in DataDirs :
          get_safe_routes(trip[1], trip[2], v, n, w, j, has_data)
    \/ Tick

SpecPlan == InitPlan /\ [][NextPlan]_vars

\* the registry under two requests at a time
RaceVotes == {"up"}
NextRace ==
    \/ \E p \in Procs, si \in VoteSites : ReportLoad(p, si.latitude, si.severity, si.user_id)
    \/ \E p \in Procs, id \in Ids, vt \in RaceVotes : VoteLoad(p, id, vt)
    \/ \E p \in Procs, id \in Ids : DeleteLoad(p, id, None)
    \/ \E p \in Procs : ActiveLoad(p)
    \/ \E p \in Procs : Save(p)
    \/ Tick

SpecRace == Init /\ [][NextRace]_vars

\* the registry under reports of every severity, upvotes on reports not yet
\* verified, and the impact multiplier as the clock runs
NextImpact ==
    \/ \E si \in ImpactSites : ReportAccident(si.latitude, si.severity, si.user_id, 0, 0)
    \/ \E i \in 0..now :
          /\ HasId(store, i)
          /\ ~store[FirstWithId(store, i)].verified
          /\ VoteAccident(i, "up")
    \/ \E wp \in Routes, d \in {0, 1} : GetAccidentImpactMultiplier(wp, d)
    \/ Tick

SpecImpact == Init /\ [][NextImpact]_vars

\* a report the storage file already holds when the registry is constructed:
\* created at clock reading t and verified since
StoredVerified(t, latitude, severity, n) ==
    [NewAccident(t, t, t, latitude, severity, None, n)
        EXCEPT !.upvotes = VerifyUpvotes, !.verified = TRUE]

\* the registry constructed over a storage file that holds two verified
\* fatal reports
InitStored ==
    /\ now = 1
    /\ store = << StoredVerified(0, 0, "Fatal", -1), StoredVerified(1, 0, "Fatal", -2) >>
    /\ created = 0
    /\ voted_out = {}
    /\ last = Call("init", 1, None, <<>>, 0)
    /\ city_models_cache = <<>>
    /\ writers = [p \in Procs |-> Idle]
    /\ removed = {}

SpecStored == InitStored /\ [][NextImpact]_vars

----------------------------------------------------------------------------
(* Properties *)

QueryOps == {"listActive", "findNear", "findOnRoute", "impactMultiplier", "statistics"}

Uids(accidents) == {accidents[k].uid : k \in 1..Len(accidents)}

\* the report of the list that carries the history tag n
ByUid(accidents, n) == accidents[CHOOSE k \in 1..Len(accidents) : accidents[k].uid = n]

\* C1: no query returns or counts a report that is 2 hours old or older at
\* the clock reading the query evicts with, and after listActive the file
\* holds no such report either.
C1_NoExpiredReportServed ==
    /\ last.op \in QueryOps =>
          \A k \in 1..Len(last.out) : last.at - last.out[k].timestamp < TTL
    /\ last.op = "statistics" =>
          /\ last.ret.total_active = Len(last.out)
          /\ last.out # <<>> => last.at - last.ret.most_recent.timestamp < TTL
    /\ last.op = "listActive" =>
          /\ last.out = store
          /\ \A k \in 1..Len(store) : last.at - store[k].timestamp < TTL

\* a listActive call evicted an expired report and returned a fresh one
C1_Witness ==
    last.op = "listActive" /\ last.evicted > 0 /\ last.out # <<>>

\* C2 (as claimed): the vote that brings a report's downvotes to 5 removes
\* it and answers true; from then on the report is in no listing and every
\* vote on its id answers false; no stored report has 5 or more downvotes.
C2_VotedOutForGood ==
    /\ [](\A k \in 1..Len(store) : store[k].downvotes < RemoveDownvotes)
    /\ [](\A g \in voted_out : g.uid \notin Uids(store) /\ g.uid \notin Uids(last.out))
    /\ [][\A i \in Ids :
            /\ (/\ HasId(store, i)
                /\ store[FirstWithId(store, i)].downvotes = RemoveDownvotes - 1
                /\ VoteAccident(i, "down"))
               => (/\ last'.ret = TRUE
                   /\ store[FirstWithId(store, i)].uid \notin Uids(store'))
            /\ \A vt \in VoteTypes :
                 ((\E g \in voted_out : g.id = i) /\ VoteAccident(i, vt))
                    => last'.ret = FALSE]_vars

\* C3: every stored report with 3 or more upvotes is verified.
C3_VerifiedFromThreeUpvotes ==
    \A k \in 1..Len(store) : store[k].upvotes >= VerifyUpvotes => store[k].verified

\* the third upvote has just been cast on a report
C3_Witness ==
    /\ last.op = "vote"
    /\ \E k \in 1..Len(store) : store[k].upvotes = VerifyUpvotes /\ store[k].verified

\* C4: a report that is verified stays verified for as long as it is stored.
C4_VerifiedNeverReset ==
    [][\A n \in Uids(store) \cap Uids(store') :
          ByUid(store, n).verified => ByUid(store', n).verified]_vars

\* a verified report has received an upvote and a downvote after its third upvote
C4_Witness ==
    \E k \in 1..Len(store) :
        /\ store[k].verified
        /\ store[k].upvotes > VerifyUpvotes
        /\ store[k].downvotes > 0

\* C5 (as claimed): a vote up or down on a stored id answers true, adds
\* exactly 1 to the matching counter of the report it addresses and leaves
\* its other counter alone, and every other stored report is stored
\* unchanged after it; no step lowers a counter.
C5_VoteTouchesOneCounter ==
    [][/\ \A i \in Ids, vt \in {"up", "down"} :
            (HasId(store, i) /\ VoteAccident(i, vt)) =>
                LET k == FirstWithId(store, i)
                    acc == store[k]
                IN /\ last'.ret = TRUE
                   /\ acc.uid \in Uids(store') =>
                        /\ ByUid(store', acc.uid).upvotes =
                              acc.upvotes + (IF vt = "up" THEN 1 ELSE 0)
                        /\ ByUid(store', acc.uid).downvotes =
                              acc.downvotes + (IF vt = "down" THEN 1 ELSE 0)
                   /\ \A j \in 1..Len(store) \ {k} :
                        \E m \in 1..Len(store') : store'[m] = store[j]
       /\ \A n \in Uids(store) \cap Uids(store') :
            /\ ByUid(store', n).upvotes >= ByUid(store, n).upvotes
            /\ ByUid(store', n).downvotes >= ByUid(store, n).downvotes]_vars

\* C6: a vote or a delete with an id that is not in the file answers false
\* and leaves the file as it was.
C6_UnknownIdIsNoOp ==
    [][(last'.op \in {"vote", "delete"} /\ ~last'.known)
          => (last'.ret = FALSE /\ store' = store)]_vars

\* a vote was answered false while the file holds reports
C6_Witness ==
    last.op = "vote" /\ ~last.known /\ last.ret = FALSE /\ store # <<>>

\* C7 (as claimed): delete removes a report, and answers true, exactly when
\* the report has the id and the requester is absent or is the report's
\* reporter; otherwise it answers false and the file is unchanged.
C7_DeleteOnlyByOwner ==
    [][\A i \in Ids, u \in ReporterIds :
          DeleteAccident(i, u) =>
              LET Allowed(acc) == acc.id = i /\ (u = None \/ acc.user_id = u)
                  Removed(acc) == acc.uid \notin Uids(store')
              IN /\ \A k \in 1..Len(store) : Removed(store[k]) <=> Allowed(store[k])
                 /\ last'.ret = (\E k \in 1..Len(store) : Allowed(store[k]))
                 /\ last'.ret = FALSE => store' = store
                 /\ \A m \in 1..Len(store') : \E k \in 1..Len(store) : store'[m] = store[k]]_vars

\* C8 (as claimed): listActive returns every stored report younger than the
\* TTL and none older than the TTL, and a report leaves the file only when
\* it is deleted, when its own downvotes reach 5, or when it has expired.
C8_ListedUntilExpiry ==
    [][/\ last'.op = "listActive" =>
            \A k \in 1..Len(store) :
                /\ now - store[k].timestamp < TTL => store[k].uid \in Uids(last'.out)
                /\ now - store[k].timestamp > TTL => store[k].uid \notin Uids(last'.out)
       /\ \A k \in 1..Len(store) :
            store[k].uid \notin Uids(store') =>
                \/ now - store[k].timestamp >= TTL
                \/ \E u \in ReporterIds : DeleteAccident(store[k].id, u)
                \/ /\ k = FirstWithId(store, store[k].id)
                   /\ store[k].downvotes = RemoveDownvotes - 1
                   /\ VoteAccident(store[k].id, "down")]_vars

\* C9 (as claimed): a new report has no votes and is not verified, and
\* expires_at = timestamp + TTL for every stored report.
C9_ExpiryIsTimestampPlusTTL ==
    /\ \A k \in 1..Len(store) : store[k].expires_at = store[k].timestamp + TTL
    /\ last.op = "report" =>
          /\ last.ret.upvotes = 0 /\ last.ret.downvotes = 0 /\ ~last.ret.verified
          /\ last.ret.expires_at = last.ret.timestamp + TTL
          /\ store # <<>> /\ store[Len(store)] = last.ret

\* C10 (as claimed): no two stored reports have the same id.
C10_IdsUnique ==
    \A j, k \in 1..Len(store) : j # k => store[j].id # store[k].id

\* the list a listActive call returns when it is the next call after a write
\* that left the file as `accidents` at clock reading t
NextListing(accidents, t) == CleanExpired(accidents, t)

\* C11 (as claimed): after a vote that answers true, the next listActive
\* returns the report the vote addressed with the counter incremented and the
\* flag updated, or does not return it if that vote removed it; the report
\* that report() returns is in the next listActive result.
C11_ReadYourWrites ==
    [][/\ \A i \in Ids, vt \in VoteTypes :
            (HasId(store, i) /\ VoteAccident(i, vt) /\ last'.ret = TRUE) =>
                LET hit == store[FirstWithId(store, i)]
                    up == hit.upvotes + (IF vt = "up" THEN 1 ELSE 0)
                    down == hit.downvotes + (IF vt = "down" THEN 1 ELSE 0)
                    listed == NextListing(store', now')
                IN IF hit.uid \notin Uids(store')
                   THEN hit.uid \notin Uids(listed)
                   ELSE /\ hit.uid \in Uids(listed)
                        /\ ByUid(listed, hit.uid).upvotes = up
                        /\ ByUid(listed, hit.uid).downvotes = down
                        /\ ByUid(listed, hit.uid).verified =
                              (hit.verified \/ up >= VerifyUpvotes)
       /\ last'.op = "report" =>
            \E k \in 1..Len(NextListing(store', now')) :
                NextListing(store', now')[k] = last'.ret
       /\ last'.op = "listActive" => last'.out = NextListing(store, now)]_vars

\* the report lies within the buffer of some leg of the route
WithinBuffer(acc, waypoints, buffer) ==
    \E i \in 1..(Len(waypoints) - 1) :
        PointToSegmentDistance(acc.latitude, waypoints[i], waypoints[i + 1]) <= buffer

\* C12: the impact multiplier is between 1.0 and 2.0, and is exactly 1.0 for
\* an empty waypoint list and for a route with no active report within its
\* buffer.
C12_ImpactMultiplierRange ==
    [][last'.op = "impactMultiplier" =>
          /\ last'.ret >= 10000
          /\ last'.ret <= 20000
          /\ \A wp \in Routes :
                GetAccidentImpactMultiplier(wp, now' - now) =>
                    /\ wp = <<>> => last'.ret = 10000
                    /\ (\A k \in 1..Len(store) :
                           now - store[k].timestamp < TTL
                               => ~WithinBuffer(store[k], wp, DefaultBuffer))
                         => last'.ret = 10000]_vars

\* a multiplier was capped: the impacts of the matched reports exceed 1.0
C12_Witness ==
    /\ last.op = "impactMultiplier"
    /\ last.ret = 20000
    /\ SumSeq([i \in 1..Len(last.out) |-> Impact(last.out[i], now)]) > 10000

\* the additive-decay reference: the contribution of one matched report of
\* the given severity, age in minutes and verification, in ten-thousandths
Reference(severity, age_minutes, verified) ==
    LET severityWeight == CASE severity = "minor" -> 105
                            [] severity = "moderate" -> 115
                            [] severity = "severe" -> 130
                            [] severity = "fatal" -> 150
                            [] OTHER -> 110
        timeDecayFactor == CASE age_minutes <= 30 -> 10
                             [] age_minutes > 30 /\ age_minutes <= 60 -> 8
                             [] OTHER -> 5
        verificationFactor == IF verified THEN 12 ELSE 10
    IN (severityWeight - 100) * timeDecayFactor * verificationFactor

\* C13: the impact multiplier is min(2.0, 1.0 + the sum of the reference
\* contributions of the reports matched on the route), the age of a report
\* taken at the clock reading of the computation.
C13_ImpactIsAdditiveDecay ==
    last.op = "impactMultiplier" =>
        LET sum == SumSeq([i \in 1..Len(last.out) |->
                              Reference(last.out[i].severity,
                                        (now - last.out[i].timestamp) * 60,
                                        last.out[i].verified)])
        IN last.ret = IF 10000 + sum < 20000 THEN 10000 + sum ELSE 20000

\* an uncapped multiplier over a verified report one hour old and a report
\* two hours old at the clock reading of the computation
C13_Witness ==
    /\ last.op = "impactMultiplier"
    /\ last.ret < 20000
    /\ \E i, j \in 1..Len(last.out) :
          /\ last.out[i].verified /\ now - last.out[i].timestamp = 1
          /\ ~last.out[j].verified /\ now - last.out[j].timestamp = 2

\* the value get_accident_impact_multiplier returns for the route when it is
\* called on the file `accidents` at clock reading t
MultiplierOf(accidents, waypoints, t) ==
    ImpactMultiplier(OnRoute(CleanExpired(accidents, t), waypoints, DefaultBuffer), t)

\* C14: a report added within the buffer of a route, the clock and the other
\* reports being as they were, never lowers the impact multiplier of the
\* route, and a multiplier of 2.0 stays 2.0.
C14_ImpactMonotone ==
    [][(last'.op = "report" /\ now' = now) =>
          \A wp \in Routes :
              WithinBuffer(last'.ret, wp, DefaultBuffer) =>
                  /\ MultiplierOf(store', wp, now) >= MultiplierOf(store, wp, now)
                  /\ MultiplierOf(store, wp, now) = 20000
                       => MultiplierOf(store', wp, now) = 20000]_vars

\* a report has just been added within the buffer of a route whose
\* multiplier was at the cap, and another route's multiplier is above 1.0
\* and below the cap
C14_Witness ==
    /\ last.op = "report"
    /\ \E wp \in Routes :
          /\ WithinBuffer(last.ret, wp, DefaultBuffer)
          /\ Len(OnRoute(CleanExpired(store, now), wp, DefaultBuffer)) >= 3
          /\ MultiplierOf(SubSeq(store, 1, Len(store) - 1), wp, now) = 20000
          /\ MultiplierOf(store, wp, now) = 20000

\* a report has just been added within the buffer of a route that already
\* had a matching report, and the multiplier rose without reaching the cap
C14_Rises ==
    /\ last.op = "report"
    /\ \E wp \in Routes :
          /\ WithinBuffer(last.ret, wp, DefaultBuffer)
          /\ MultiplierOf(SubSeq(store, 1, Len(store) - 1), wp, now) > 10000
          /\ MultiplierOf(store, wp, now) >
                 MultiplierOf(SubSeq(store, 1, Len(store) - 1), wp, now)
          /\ MultiplierOf(store, wp, now) < 20000

\* C16: findOnRoute returns each active report at most once, returns it
\* exactly when some leg of the route is within the buffer of it, and
\* annotates it with the rounded distance to the first such leg.
C16_FirstLegWins ==
    [][last'.op = "findOnRoute" =>
          \A wp \in Routes :
              GetAccidentsOnRoute(wp, DefaultBuffer) =>
                  LET out == last'.out
                      legs == 1..(Len(wp) - 1)
                      dist(acc, i) == PointToSegmentDistance(acc.latitude, wp[i], wp[i + 1])
                  IN /\ \A i, j \in 1..Len(out) : i # j => out[i].uid # out[j].uid
                     /\ \A k \in 1..Len(store) :
                           store[k].uid \in Uids(out) <=>
                               /\ now - store[k].timestamp < TTL
                               /\ \E i \in legs : dist(store[k], i) <= DefaultBuffer
                     /\ \A m \in 1..Len(out) :
                           \E i \in legs :
                               /\ dist(out[m], i) <= DefaultBuffer
                               /\ \A j \in 1..(i - 1) : dist(out[m], j) > DefaultBuffer
                               /\ out[m].distance_from_route_km = Round2(dist(out[m], i))]_vars

\* findOnRoute returned a report annotated with the distance to its first
\* leg within the buffer while a later leg of the route passes through it,
\* and left out another active report
C16_Witness ==
    /\ last.op = "findOnRoute"
    /\ \E m \in 1..Len(last.out) :
          /\ last.out[m].distance_from_route_km = Round2(400)
          /\ PointToSegmentDistance(last.out[m].latitude, 2600, 4000) = 0
    /\ Len(last.out) < Len(store)

\* C17: findNear returns exactly the active reports whose distance to the
\* point is at most the radius, each annotated with its distance (to two
\* decimals of a km), in ascending order of distance, reports at equal
\* distance in insertion order.
C17_NearSortedByDistance ==
    [][last'.op = "findNear" =>
          \A la \in NearCentres :
              GetAccidentsNearLocation(la, DefaultRadius) =>
                  LET out == last'.out
                      d(acc) == HaversineDistance(la, acc.latitude)
                      pos(acc) == CHOOSE k \in 1..Len(store) : store[k].uid = acc.uid
                  IN /\ \A i, j \in 1..Len(out) : i # j => out[i].uid # out[j].uid
                     /\ \A k \in 1..Len(store) :
                           store[k].uid \in Uids(out) <=>
                               /\ now - store[k].timestamp < TTL
                               /\ d(store[k]) <= DefaultRadius
                     /\ \A m \in 1..Len(out) : out[m].distance_km = Round2(d(out[m]))
                     /\ \A i, j \in 1..Len(out) :
                           i < j => /\ d(out[i]) <= d(out[j])
                                    /\ d(out[i]) = d(out[j]) => pos(out[i]) < pos(out[j])]_vars

\* C15: when a route is scored in the half hour after a fatal accident was
\* reported within its buffer, the report still being in the registry, the
\* scoring reports an accident multiplier above 1.0.
C15_FatalRaisesMultiplier ==
    [][last'.op = "scoreRoute" =>
          ((\E k \in 1..Len(store) :
                /\ store[k].severity = "fatal"
                /\ now = store[k].timestamp
                /\ WithinBuffer(store[k], last'.arg.waypoints, DefaultBuffer))
           => /\ "accident_multiplier" \in DOMAIN last'.ret
              /\ last'.ret.accident_multiplier > 10000)]_vars

C19_AlwaysScores ==
    last.op = "scoreRoute" => "risk_score" \in DOMAIN last.ret

\* C20: a scoring with a vehicle type that is not in the vehicle table
\* returns the score, the multipliers and the breakdown that the same
\* scoring returns for "car", with vehicle multiplier 1.0, and an estimate
\* for such a type is the estimate for "car".  The scoring for "car" is the
\* one made in the state the call has left, before anything else happens.
C20_UnknownVehicleIsCar ==
    /\ last.op = "scoreRoute" /\ LowerVehicle(last.arg.vehicle_type) \notin VehicleTypes =>
          LET car == RouteRiskNow(last.arg.waypoints, "car",
                                  get_current_weather(last.arg.weather_call),
                                  last.arg.has_data)
              got == last.ret
          IN IF "risk_score" \in DOMAIN car
             THEN /\ "risk_score" \in DOMAIN got
                  /\ got.risk_score = car.risk_score
                  /\ got.accident_multiplier = car.accident_multiplier
                  /\ got.vehicle_multiplier = car.vehicle_multiplier
                  /\ got.vehicle_multiplier = 10
                  /\ got.weather_multiplier = car.weather_multiplier
                  /\ got.combined_multiplier = car.combined_multiplier
                  /\ got.risk_details = car.risk_details
             ELSE got = car
    /\ last.op = "metadata" /\ LowerVehicle(last.arg.vehicle_type) \notin VehicleTypes =>
          last.ret = RouteMetadata(last.arg.waypoints, last.arg.risk_score, "car")

\* a scoring with an unknown vehicle type returned a score with a breakdown
\* over a route that has an accident on it
C20_Witness ==
    /\ last.op = "scoreRoute"
    /\ LowerVehicle(last.arg.vehicle_type) \notin VehicleTypes
    /\ "risk_score" \in DOMAIN last.ret
    /\ last.ret.vehicle_multiplier = 10
    /\ last.ret.accident_multiplier > 10000
    /\ last.ret.risk_details # <<>>

\* an estimate for an unknown vehicle type over a route long enough for the
\* speed factor to change the minutes
C20_EstimateWitness ==
    /\ last.op = "metadata"
    /\ LowerVehicle(last.arg.vehicle_type) \notin VehicleTypes
    /\ last.ret.time_minutes = 6

\* C30: a vote or a delete that names only reports whose TTL has elapsed
\* answers false and leaves the file, with their counters and flags, as it
\* was, whether or not a read has evicted them.
C30_ExpiredIsNotFound ==
    [][\A i \in Ids :
          /\ \/ \E vt \in VoteTypes : VoteAccident(i, vt)
             \/ \E u \in ReporterIds : DeleteAccident(i, u)
          /\ \A k \in 1..Len(store) : store[k].id = i => now - store[k].timestamp >= TTL
          => (last'.ret = FALSE /\ store' = store)]_vars

\* C28: a read, or the report of another accident, leaves every stored
\* report that has not expired in the file with every field as it was, the
\* distance annotations included, and removes nothing but expired reports.
C28_ReadsLeaveReportsAlone ==
    [][last'.op \in QueryOps \cup {"report"} =>
          /\ \A k \in 1..Len(store) :
                now - store[k].timestamp < TTL =>
                    \E m \in 1..Len(store') : store'[m] = store[k]
          /\ \A m \in 1..Len(store') :
                \/ \E k \in 1..Len(store) : store'[m] = store[k]
                \/ last'.op = "report" /\ m = Len(store') /\ store'[m] = last'.ret
          /\ \A m \in 1..Len(store') :
                /\ store'[m].distance_km = Absent
                /\ store'[m].distance_from_route_km = Absent]_vars

\* a spatial query returned an annotated report and evicted another, and
\* the file holds the returned report without the annotation
C28_Witness ==
    /\ last.op \in {"findNear", "findOnRoute"}
    /\ last.evicted > 0
    /\ last.out # <<>>
    /\ \A i \in 1..Len(last.out) :
          /\ last.out[i].distance_km # Absent \/ last.out[i].distance_from_route_km # Absent
          /\ \E m \in 1..Len(store) :
                /\ store[m].uid = last.out[i].uid
                /\ store[m].distance_km = Absent
                /\ store[m].distance_from_route_km = Absent

\* the weather table as claimed, in hundredths
ClaimedWeatherMult(category) ==
    CASE category = "Clear" -> 100
      [] category = "Rain" -> 120
      [] category = "Fog" -> 121
      [] category = "Heavy Rain" -> 129
      [] OTHER -> 100

C22_NoSegmentScores ==
    /\ last.op = "scoreRoute"
    /\ city_models_cache = <<NoSegments>>
    /\ Len(last.arg.waypoints) >= 2
    /\ last.out = <<>>
    /\ get_current_weather(last.arg.weather_call).weather_category = "Clear"
    => /\ LowerVehicle(last.arg.vehicle_type) = "car" =>
             last.ret.risk_score = 4000 /\ RiskLevel(last.ret.risk_score) = "medium"
       /\ LowerVehicle(last.arg.vehicle_type) = "bike" =>
             last.ret.risk_score = 7200 /\ RiskLevel(last.ret.risk_score) = "high"

\* a bike was scored 72.0 over two legs of unequal length, one of them of
\* length zero, with no segment known and no accident
C22_Witness ==
    /\ last.op = "scoreRoute"
    /\ city_models_cache = <<NoSegments>>
    /\ last.arg.waypoints = <<0, 2, 2>>
    /\ last.out = <<>>
    /\ last.arg.vehicle_type = "Bike"
    /\ last.ret.weather_data.weather_category = "Clear"
    /\ last.ret.risk_score = 7200

\* the speed factors as claimed, in hundredths
ClaimedSpeedFactor(vehicle_type) ==
    CASE vehicle_type \in {"car", "Car"} -> 100
      [] vehicle_type \in {"bike", "Bike"} -> 85
      [] vehicle_type = "auto" -> 75
      [] vehicle_type = "bus" -> 80
      [] vehicle_type = "truck" -> 70
      [] OTHER -> 100

\* C24: the estimate is floor(floor(km / 30 * 60) / speed factor) minutes,
\* with speed factor 1.0 for an unknown vehicle type, replaced by
\* floor(minutes * 1.15) exactly when the risk score is above 60.
C24_EstimateFormula ==
    last.op = "metadata" =>
        LET wp == last.arg.waypoints
            metres == SumSeq([i \in 1..(IF Len(wp) = 0 THEN 0 ELSE Len(wp) - 1) |->
                                 Abs(wp[i + 1] - wp[i])])
            baseTimeMinutes == (metres * 60) \div 30000
            timeMinutes == (baseTimeMinutes * 100) \div ClaimedSpeedFactor(last.arg.vehicle_type)
        IN last.ret.time_minutes =
               IF last.arg.risk_score > 6000 THEN (timeMinutes * 115) \div 100
               ELSE timeMinutes

\* an estimate at a risk score of exactly 60 where the penalty would have
\* added a minute
C24_Witness ==
    /\ last.op = "metadata"
    /\ last.arg.risk_score = 6000
    /\ last.arg.vehicle_type = "Bike"
    /\ last.ret.time_minutes = 7

\* C26: a scoring whose weather call fails (no API key, an answer that is
\* not 200, an exception) goes on with the mock weather record, whose
\* category is in the weather table; every weather record is; and a
\* scoring returns an error only when the city cannot be loaded.
C26_WeatherFailureAbsorbed ==
    last.op = "scoreRoute" =>
        LET call == last.arg.weather_call
            failed == ~call.api_key \/ call.response # "200"
        IN /\ get_current_weather(call).weather_category \in WeatherTable
           /\ "error" \in DOMAIN last.ret => city_models_cache = <<>>
           /\ "risk_score" \in DOMAIN last.ret =>
                 /\ last.ret.weather_data.weather_category \in WeatherTable
                 /\ failed => /\ ~last.ret.weather_data.is_live
                              /\ last.ret.weather_data.weather_category \in {"Clear", "Rain"}
                              /\ 5 * last.ret.weather_multiplier \in {100, 125}

\* a scoring returned a score after the weather API had answered 401
C26_Witness ==
    /\ last.op = "scoreRoute"
    /\ last.arg.weather_call.api_key
    /\ last.arg.weather_call.response = "401"
    /\ "risk_score" \in DOMAIN last.ret
    /\ last.ret.weather_data.weather_category = "Clear"

\* C25: a generated route has at least two points, starts at the origin
\* and ends at the destination, and has 4 points between them when direct,
\* 4 and a midpoint when via highway, 6 and a midpoint when scenic,
\* whatever the origin and the destination are.
C25_WaypointCounts ==
    last.op = "waypoints" =>
        /\ Len(last.ret) >= 2
        /\ last.ret[1] = last.arg.start
        /\ last.ret[Len(last.ret)] = last.arg.end
        /\ last.arg.route_type = "direct" => Len(last.ret) - 2 = 4
        /\ last.arg.route_type = "highway" => Len(last.ret) - 2 = 4 + 1
        /\ last.arg.route_type = "scenic" => Len(last.ret) - 2 = 6 + 1

\* a scenic route was generated from a point to itself
C25_Witness ==
    /\ last.op = "waypoints"
    /\ last.arg.route_type = "scenic"
    /\ last.arg.start = last.arg.end
    /\ Len(last.ret) = 9
    /\ last.ret[5] = last.arg.start + ScenicOffset

\* the classification consumers rely on, by score in hundredths
ClaimedLevel(score) ==
    CASE score < 3500 -> "low"
      [] 3500 <= score /\ score < 6000 -> "medium"
      [] score >= 6000 -> "high"

\* C23: every route of a response carries the level of its risk score:
\* low below 35, medium from 35 to below 60, high from 60 on, whether
\* the route comes from a traffic result or from the simulator.
C23_RiskLevelThresholds ==
    (last.op = "safeRoutes" /\ "routes" \in DOMAIN last.ret) =>
        \A k \in 1..Len(last.ret.routes) :
            last.ret.routes[k].risk_level = ClaimedLevel(last.ret.routes[k].risk_score)

\* simulated routes were returned with a score of exactly 35.00 labelled
\* medium next to a lower one labelled low
C23_Witness ==
    /\ last.op = "safeRoutes"
    /\ "routes" \in DOMAIN last.ret
    /\ last.arg.traffic_routes = 0
    /\ \E k \in 1..Len(last.ret.routes) :
           last.ret.routes[k].risk_score = 3500 /\ last.ret.routes[k].risk_level = "medium"
    /\ \E k \in 1..Len(last.ret.routes) : last.ret.routes[k].risk_level = "low"

\* traffic routes were returned with a score of exactly 60.00 labelled high
C23_TrafficWitness ==
    /\ last.op = "safeRoutes"
    /\ "routes" \in DOMAIN last.ret
    /\ last.arg.traffic_routes > 0
    /\ \E k \in 1..Len(last.ret.routes) :
           last.ret.routes[k].risk_score = 6000 /\ last.ret.routes[k].risk_level = "high"

\* C27: when two upvotes on the same report both load it before either
\* saves, the file holds what the last saver wrote and the other increment
\* is lost: after both have returned true the count is up by one, not two.
C27_LastSaverWins ==
    \A p \in Procs, q \in Procs :
        (/\ p # q
         /\ last.op = "save" /\ last.arg.proc = p
         /\ writers[p].done /\ writers[q].done
         /\ writers[p].pc = "idle" /\ writers[q].pc = "idle"
         /\ writers[p].op = "up" /\ writers[q].op = "up"
         /\ writers[p].uid = writers[q].uid
         /\ writers[p].seen = writers[q].seen)
        => /\ store = last.out
           /\ \A i \in 1..Len(store) :
                  store[i].uid = writers[p].uid => store[i].upvotes = writers[p].seen + 1

\* two upvotes on the same report have both returned true and its count is
\* up by one
C27_Witness ==
    /\ last.op = "save"
    /\ \A p \in Procs : writers[p].done /\ writers[p].pc = "idle" /\ writers[p].op = "up"
    /\ writers[1].uid = writers[2].uid
    /\ writers[1].seen = 0 /\ writers[2].seen = 0
    /\ \E i \in 1..Len(store) : store[i].uid = writers[1].uid /\ store[i].upvotes = 1

\* C29: a report that a save has taken out of the file (a delete, a fifth
\* downvote, an eviction) is never in the file again, whatever the order of
\* the loads and saves of the requests in flight.
C29_NoResurrection == removed \cap StoredUids(store) = {}

====
